---- MODULE Spec2Model ----
(***************************************************************************)
(* A model of the retirement math game (BAIIHowToModule.tsx): the seeded   *)
(* scenario generator, the finance engine, the grader and the React        *)
(* component's state with its event handlers and effects.                  *)
(*                                                                         *)
(* Number representation.  TLC's integers are 32-bit signed, so:           *)
(*   - a 32-bit word (ToUint32 of a JS number) is a record [h, l] of two   *)
(*     16-bit halves, value h * 2^16 + l;                                  *)
(*   - the generator's untruncated counter t is [x, h, l], value           *)
(*     x * 2^32 + h * 2^16 + l;                                            *)
(*   - a rate or ratio (wrr, g, r, rRetire, r_real) is an integer number   *)
(*     of basis points (1e-4), a growth factor is fixed point with SCALE   *)
(*     units per 1, and every product or quotient is rounded down;         *)
(*   - a money amount is an integer number of dollars;                     *)
(*   - a value that may be NaN or Infinity in the program (a parsed        *)
(*     answer, a field of the truth) is a record [k, v] with k one of      *)
(*     "fin", "nan", "inf".                                                *)
(* IEEE rounding of doubles is not modelled.                               *)
(***************************************************************************)
EXTENDS Integers, Sequences, FiniteSets, TLC

VARIABLES
  mode,           \* the mode prop: "game" or "canvas"
  mounted,        \* whether the effects of the first render have run
  stats,          \* attempted, allCorrect, correct, incorrect
  difficulty,
  seed,
  problemIndex,
  gameScenario,
  gameTruth,
  canvasInputs,   \* the raw strings of the canvas
  activeMethod,
  answers,
  statuses,
  showSolution,
  showDetails,
  edits,          \* history: scenario inputs changed since the scenario was last replaced
  calls           \* history: the calls made to a function under study, with their results

vars == <<mode, mounted, stats, difficulty, seed, problemIndex, gameScenario, gameTruth,
          canvasInputs, activeMethod, answers, statuses, showSolution, showDetails, edits, calls>>

\* ------------------------------------------------------------------------
\* 32-bit words
\* ------------------------------------------------------------------------

B8 == 16 * 16
B16 == 256 * 256

Max(a, b) == IF a >= b THEN a ELSE b
Min(a, b) == IF a <= b THEN a ELSE b
Abs(a) == IF a < 0 THEN -a ELSE a

W(h, l) == [h |-> h, l |-> l]

Pow2(n) == <<1, 2, 4, 8, 16, 32, 64, 128, 256, 512, 1024, 2048, 4096, 8192, 16384, 32768, 65536>>[n + 1]

\* the bitwise operators on 4-bit naturals: row a + 1, column b + 1
XorNib ==
  <<<<0, 1, 2, 3, 4, 5, 6, 7, 8, 9, 10, 11, 12, 13, 14, 15>>,
    <<1, 0, 3, 2, 5, 4, 7, 6, 9, 8, 11, 10, 13, 12, 15, 14>>,
    <<2, 3, 0, 1, 6, 7, 4, 5, 10, 11, 8, 9, 14, 15, 12, 13>>,
    <<3, 2, 1, 0, 7, 6, 5, 4, 11, 10, 9, 8, 15, 14, 13, 12>>,
    <<4, 5, 6, 7, 0, 1, 2, 3, 12, 13, 14, 15, 8, 9, 10, 11>>,
    <<5, 4, 7, 6, 1, 0, 3, 2, 13, 12, 15, 14, 9, 8, 11, 10>>,
    <<6, 7, 4, 5, 2, 3, 0, 1, 14, 15, 12, 13, 10, 11, 8, 9>>,
    <<7, 6, 5, 4, 3, 2, 1, 0, 15, 14, 13, 12, 11, 10, 9, 8>>,
    <<8, 9, 10, 11, 12, 13, 14, 15, 0, 1, 2, 3, 4, 5, 6, 7>>,
    <<9, 8, 11, 10, 13, 12, 15, 14, 1, 0, 3, 2, 5, 4, 7, 6>>,
    <<10, 11, 8, 9, 14, 15, 12, 13, 2, 3, 0, 1, 6, 7, 4, 5>>,
    <<11, 10, 9, 8, 15, 14, 13, 12, 3, 2, 1, 0, 7, 6, 5, 4>>,
    <<12, 13, 14, 15, 8, 9, 10, 11, 4, 5, 6, 7, 0, 1, 2, 3>>,
    <<13, 12, 15, 14, 9, 8, 11, 10, 5, 4, 7, 6, 1, 0, 3, 2>>,
    <<14, 15, 12, 13, 10, 11, 8, 9, 6, 7, 4, 5, 2, 3, 0, 1>>,
    <<15, 14, 13, 12, 11, 10, 9, 8, 7, 6, 5, 4, 3, 2, 1, 0>>>>

OrNib ==
  <<<<0, 1, 2, 3, 4, 5, 6, 7, 8, 9, 10, 11, 12, 13, 14, 15>>,
    <<1, 1, 3, 3, 5, 5, 7, 7, 9, 9, 11, 11, 13, 13, 15, 15>>,
    <<2, 3, 2, 3, 6, 7, 6, 7, 10, 11, 10, 11, 14, 15, 14, 15>>,
    <<3, 3, 3, 3, 7, 7, 7, 7, 11, 11, 11, 11, 15, 15, 15, 15>>,
    <<4, 5, 6, 7, 4, 5, 6, 7, 12, 13, 14, 15, 12, 13, 14, 15>>,
    <<5, 5, 7, 7, 5, 5, 7, 7, 13, 13, 15, 15, 13, 13, 15, 15>>,
    <<6, 7, 6, 7, 6, 7, 6, 7, 14, 15, 14, 15, 14, 15, 14, 15>>,
    <<7, 7, 7, 7, 7, 7, 7, 7, 15, 15, 15, 15, 15, 15, 15, 15>>,
    <<8, 9, 10, 11, 12, 13, 14, 15, 8, 9, 10, 11, 12, 13, 14, 15>>,
    <<9, 9, 11, 11, 13, 13, 15, 15, 9, 9, 11, 11, 13, 13, 15, 15>>,
    <<10, 11, 10, 11, 14, 15, 14, 15, 10, 11, 10, 11, 14, 15, 14, 15>>,
    <<11, 11, 11, 11, 15, 15, 15, 15, 11, 11, 11, 11, 15, 15, 15, 15>>,
    <<12, 13, 14, 15, 12, 13, 14, 15, 12, 13, 14, 15, 12, 13, 14, 15>>,
    <<13, 13, 15, 15, 13, 13, 15, 15, 13, 13, 15, 15, 13, 13, 15, 15>>,
    <<14, 15, 14, 15, 14, 15, 14, 15, 14, 15, 14, 15, 14, 15, 14, 15>>,
    <<15, 15, 15, 15, 15, 15, 15, 15, 15, 15, 15, 15, 15, 15, 15, 15>>>>

AndNib ==
  <<<<0, 0, 0, 0, 0, 0, 0, 0, 0, 0, 0, 0, 0, 0, 0, 0>>,
    <<0, 1, 0, 1, 0, 1, 0, 1, 0, 1, 0, 1, 0, 1, 0, 1>>,
    <<0, 0, 2, 2, 0, 0, 2, 2, 0, 0, 2, 2, 0, 0, 2, 2>>,
    <<0, 1, 2, 3, 0, 1, 2, 3, 0, 1, 2, 3, 0, 1, 2, 3>>,
    <<0, 0, 0, 0, 4, 4, 4, 4, 0, 0, 0, 0, 4, 4, 4, 4>>,
    <<0, 1, 0, 1, 4, 5, 4, 5, 0, 1, 0, 1, 4, 5, 4, 5>>,
    <<0, 0, 2, 2, 4, 4, 6, 6, 0, 0, 2, 2, 4, 4, 6, 6>>,
    <<0, 1, 2, 3, 4, 5, 6, 7, 0, 1, 2, 3, 4, 5, 6, 7>>,
    <<0, 0, 0, 0, 0, 0, 0, 0, 8, 8, 8, 8, 8, 8, 8, 8>>,
    <<0, 1, 0, 1, 0, 1, 0, 1, 8, 9, 8, 9, 8, 9, 8, 9>>,
    <<0, 0, 2, 2, 0, 0, 2, 2, 8, 8, 10, 10, 8, 8, 10, 10>>,
    <<0, 1, 2, 3, 0, 1, 2, 3, 8, 9, 10, 11, 8, 9, 10, 11>>,
    <<0, 0, 0, 0, 4, 4, 4, 4, 8, 8, 8, 8, 12, 12, 12, 12>>,
    <<0, 1, 0, 1, 4, 5, 4, 5, 8, 9, 8, 9, 12, 13, 12, 13>>,
    <<0, 0, 2, 2, 4, 4, 6, 6, 8, 8, 10, 10, 12, 12, 14, 14>>,
    <<0, 1, 2, 3, 4, 5, 6, 7, 8, 9, 10, 11, 12, 13, 14, 15>>>>

\* a bitwise operator on 16-bit naturals, nibble by nibble
Bitwise16(nib, a, b) ==
  4096 * nib[(a \div 4096) + 1][(b \div 4096) + 1]
  + 256 * nib[((a \div 256) % 16) + 1][((b \div 256) % 16) + 1]
  + 16 * nib[((a \div 16) % 16) + 1][((b \div 16) % 16) + 1]
  + nib[(a % 16) + 1][(b % 16) + 1]

\* a ^ b, a | b, a & b on 32-bit words
Xor32(a, b) == W(Bitwise16(XorNib, a.h, b.h), Bitwise16(XorNib, a.l, b.l))
Or32(a, b) == W(Bitwise16(OrNib, a.h, b.h), Bitwise16(OrNib, a.l, b.l))
And32(a, b) == W(Bitwise16(AndNib, a.h, b.h), Bitwise16(AndNib, a.l, b.l))

\* a >>> k for 0 < k < 16
Shr32(a, k) ==
  W(a.h \div Pow2(k), (a.l \div Pow2(k)) + (a.h % Pow2(k)) * Pow2(16 - k))

\* (a + b) mod 2^32
Add32(a, b) ==
  LET lo == a.l + b.l
  IN W((a.h + b.h + (lo \div B16)) % B16, lo % B16)

\* the 32-bit product of two 16-bit naturals, as a word
Mul16(a, b) ==
  LET p1 == (a \div B8) * b
      p0 == (a % B8) * b
      lo == (p1 % B8) * B8 + p0
  IN W((p1 \div B8) + (lo \div B16), lo % B16)

\* Math.imul(a, b): the low 32 bits of the product
Imul(a, b) ==
  LET ll == Mul16(a.l, b.l)
  IN W((ll.h + Mul16(a.h, b.l).l + Mul16(a.l, b.h).l) % B16, ll.l)

\* floor(u * n / 2^32) for a word u and 0 <= n < 2^31 / 2^16
MulHi(u, n) ==
  LET nh == n \div B16
      nl == n % B16
      hl == Mul16(u.h, nl)
      lh == Mul16(u.l, nh)
      ll == Mul16(u.l, nl)
      mid == ll.h + hl.l + lh.l
  IN u.h * nh + hl.h + lh.h + (mid \div B16)

\* a small natural as a word
Word(n) == W(n \div B16, n % B16)

\* ------------------------------------------------------------------------
\* Deterministic PRNG and seed derivation
\* ------------------------------------------------------------------------

GOLD == W(40503, 31161)       \* 0x9E3779B9
INCR == W(27947, 31221)       \* 0x6D2B79F5

\* a faulty variant: one global counter, which a new generator picks up where
\* the generator made before it stands
mulberry32Global(a) ==
  IF calls # << >> /\ "t" \in DOMAIN calls[Len(calls)]
  THEN calls[Len(calls)].t
  ELSE [x |-> 0, h |-> a.h, l |-> a.l]

\* a faulty variant: the new generator continues from a counter all calls share
mulberry32Shared(a) ==
  [x |-> 0, h |-> a.h, l |-> (a.l + Len(SelectSeq(calls, LAMBDA c : c.done))) % B16]

\* mulberry32(a): a new generator; its state is the counter t = a >>> 0
mulberry32(a) == [x |-> 0, h |-> a.h, l |-> a.l]

\* t += 0x6D2B79F5, on the untruncated counter
RngStep(t) ==
  LET lo == t.l + INCR.l
      hi == t.h + INCR.h + (lo \div B16)
  IN [x |-> t.x + (hi \div B16), h |-> hi % B16, l |-> lo % B16]

\* a faulty variant: a counter beyond 32 bits is read as 2^32 - 1 instead of
\* being wrapped
RngWordClamped(t) ==
  LET tw == IF t.x > 0 THEN W(B16 - 1, B16 - 1) ELSE W(t.h, t.l)
      r1 == Imul(Xor32(tw, Shr32(tw, 15)), Or32(Word(1), tw))
      r2 == Xor32(r1, Add32(r1, Imul(Xor32(r1, Shr32(r1, 7)), Or32(Word(61), r1))))
  IN Xor32(r2, Shr32(r2, 14))

\* the 32-bit word k a call returns as k / 2^32, from the counter it has just
\* advanced; the bit operators read the counter through ToInt32 / ToUint32
RngWord(t) ==
  LET tw == W(t.h, t.l)
      r1 == Imul(Xor32(tw, Shr32(tw, 15)), Or32(Word(1), tw))
      r2 == Xor32(r1, Add32(r1, Imul(Xor32(r1, Shr32(r1, 7)), Or32(Word(61), r1))))
  IN Xor32(r2, Shr32(r2, 14))

\* lo + Math.floor(rng() * (hi - lo + 1)), rng() = u / 2^32
randInt(u, lo, hi) == lo + MulHi(u, hi - lo + 1)

\* a faulty variant: the lower bound is not added
randFloatNoOffset(u, lo, hi) == MulHi(u, hi - lo)

\* lo + rng() * (hi - lo), in basis points, rounded down
randFloat(u, lo, hi) == lo + MulHi(u, hi - lo)

\* a faulty variant: the index is masked into the base instead of xored
splitSeedAnd(base, idx) == And32(base, Imul(Word(idx + 1), GOLD))

\* splitSeed(base, idx) = (base ^ Math.imul(idx + 1, GOLD)) >>> 0
splitSeed(base, idx) == Xor32(base, Imul(Word(idx + 1), GOLD))

\* ------------------------------------------------------------------------
\* Fixed-point arithmetic
\* ------------------------------------------------------------------------

\* units per 1 of a rate or factor: one basis point
SCALE == 100 * 100

\* floor(a * b / SCALE) for a, b >= 0, without leaving 32 bits
MulDiv(a, b) ==
  LET a1 == a \div SCALE
      a0 == a % SCALE
      b1 == b \div SCALE
      b0 == b % SCALE
  IN a1 * b1 * SCALE + a1 * b0 + a0 * b1 + ((a0 * b0) \div SCALE)

\* floor(a * SCALE / b) for a >= 0, b > 0, by long division in base 100
DivFix(a, b) ==
  LET q0 == a \div b
      r1 == (a % b) * 100
      q1 == r1 \div b
      r2 == (r1 % b) * 100
      q2 == r2 \div b
  IN q0 * SCALE + q1 * 100 + q2

\* Math.pow(f, n) for a factor f and an integer n >= 0, by repeated squaring
RECURSIVE PowFix(_, _)
PowFix(f, n) ==
  IF n = 0 THEN SCALE
  ELSE IF n % 2 = 1 THEN MulDiv(PowFix(f, n - 1), f)
  ELSE LET h == PowFix(f, n \div 2) IN MulDiv(h, h)

\* a JS number that may be non-finite
Fin(n) == [k |-> "fin", v |-> n]
NaN == [k |-> "nan", v |-> 0]
Infinity == [k |-> "inf", v |-> 0]

\* ------------------------------------------------------------------------
\* Finance engine
\* ------------------------------------------------------------------------

\* computeRealRate(r, g) = (1 + r) / (1 + g) - 1
computeRealRate(r, g) == DivFix(SCALE + r, SCALE + g) - SCALE

\* a faulty variant: an ordinary annuity, without the factor (1 + rReal)
capitalAnnuityOrdinary(pmt1, rReal, RLE) ==
  IF rReal = 0 THEN pmt1 * RLE
  ELSE LET inv == DivFix(SCALE, PowFix(SCALE + rReal, RLE))
       IN MulDiv(pmt1, IF rReal > 0 THEN DivFix(SCALE - inv, rReal)
                       ELSE DivFix(inv - SCALE, -rReal))

\* a faulty variant: the numerator of the annuity factor is taken the other way round
capitalAnnuityNegated(pmt1, rReal, RLE) ==
  IF rReal = 0 THEN 0 - pmt1 * RLE
  ELSE LET inv == DivFix(SCALE, PowFix(SCALE + rReal, RLE))
           factor == IF rReal > 0 THEN DivFix(SCALE - inv, rReal)
                     ELSE DivFix(inv - SCALE, -rReal)
       IN 0 - MulDiv(MulDiv(pmt1, factor), SCALE + rReal)

\* capitalAnnuity(pmt1, rReal, RLE); |rReal| < 1e-12 is rReal = 0 basis points
capitalAnnuity(pmt1, rReal, RLE) ==
  IF rReal = 0 THEN pmt1 * RLE
  ELSE LET inv == DivFix(SCALE, PowFix(SCALE + rReal, RLE))    \* (1+rReal)^-RLE
           factor == IF rReal > 0 THEN DivFix(SCALE - inv, rReal)
                     ELSE DivFix(inv - SCALE, -rReal)
       IN MulDiv(MulDiv(pmt1, factor), SCALE + rReal)

\* a faulty variant: the deposits earn no interest
annualSavingsLinear(PVcur, K, r, N, timing) ==
  LET need == K - MulDiv(PVcur, PowFix(SCALE + r, N))
  IN IF need <= 0 THEN Fin(0)
     ELSE IF N = 0 THEN Infinity
     ELSE IF timing = "BEGIN" THEN Fin(DivFix(need \div N, SCALE + r))
     ELSE Fin(need \div N)

\* a faulty variant: without the early return for a target already met
annualSavingsNoFloor(PVcur, K, r, N, timing) ==
  LET p == PowFix(SCALE + r, N)
      need == K - MulDiv(PVcur, p)
      ann == IF r > 0 THEN DivFix(p - SCALE, r) ELSE DivFix(SCALE - p, -r)
      pmtEnd == IF N = 0 \/ (r # 0 /\ ann = 0) THEN need
                ELSE IF r = 0 THEN need \div N
                ELSE IF need >= 0 THEN DivFix(need, ann) ELSE -DivFix(-need, ann)
  IN IF timing = "BEGIN" /\ pmtEnd >= 0 THEN Fin(DivFix(pmtEnd, SCALE + r)) ELSE Fin(pmtEnd)

\* annualSavings(PVcur, K, r, N, timing)
annualSavings(PVcur, K, r, N, timing) ==
  LET p == PowFix(SCALE + r, N)
      FVexist == MulDiv(PVcur, p)
      need == K - FVexist
      ann == IF r > 0 THEN DivFix(p - SCALE, r) ELSE DivFix(SCALE - p, -r)
      pmtEnd == IF r = 0
                THEN (IF N = 0 THEN Infinity ELSE Fin(need \div N))
                ELSE (IF ann = 0 THEN Infinity ELSE Fin(DivFix(need, ann)))
  IN IF need <= 0 THEN Fin(0)
     ELSE IF timing = "BEGIN" /\ pmtEnd.k = "fin"
          THEN Fin(DivFix(pmtEnd.v, SCALE + r))
          ELSE pmtEnd

\* ------------------------------------------------------------------------
\* Scenario generator
\* ------------------------------------------------------------------------

Difficulties == {"easy", "normal", "hard"}

\* RANGES: money and years as integers, wrr / g / r in basis points
RANGES(d) ==
  CASE d = "easy" ->
         [income |-> <<50000, 90000>>, wrr |-> <<6500, 8500>>, ss |-> <<12000, 28000>>,
          rwle |-> <<15, 25>>, rle |-> <<20, 30>>, g |-> <<200, 350>>,
          r |-> <<600, 900>>, pvcur |-> <<0, 50000>>]
    [] d = "hard" ->
         [income |-> <<80000, 180000>>, wrr |-> <<7000, 9000>>, ss |-> <<15000, 40000>>,
          rwle |-> <<10, 35>>, rle |-> <<20, 35>>, g |-> <<250, 450>>,
          r |-> <<700, 1100>>, pvcur |-> <<0, 400000>>]
    [] OTHER ->
         [income |-> <<60000, 120000>>, wrr |-> <<7000, 8500>>, ss |-> <<15000, 30000>>,
          rwle |-> <<20, 35>>, rle |-> <<20, 35>>, g |-> <<200, 400>>,
          r |-> <<700, 1000>>, pvcur |-> <<0, 200000>>]

wrrChoices == <<7000, 7500, 8000, 8500>>
gChoices == <<200, 250, 300, 350>>
rChoices == <<600, 700, 800, 900>>
NAMES == <<"Alex", "Jordan", "Taylor", "Morgan", "Riley", "Casey", "Drew">>
LAST == <<"Reeves", "Kim", "Singh", "Garcia", "Patel", "Lee">>
BIOS == <<"Analyst planning hikes.", "Small business owner plan.",
          "Teacher traveler.", "Engineer optimizer.">>

\* an optional field: << >> is undefined, <<v>> is the number v
Undefined == << >>
Some(v) == <<v>>
IsNumber(o) == o # << >>

\* Math.round(x / m) * m for integers x >= 0, m > 0
RoundTo(x, m) == ((2 * x + m) \div (2 * m)) * m

\* the counter of a generator after n calls: n additions of 0x6D2B79F5
RngStepN(t, n) ==
  LET lo == t.l + n * INCR.l
      hi == t.h + n * INCR.h + (lo \div B16)
  IN [x |-> t.x + (hi \div B16), h |-> hi % B16, l |-> lo % B16]

\* the values the first NumDraws calls of a fresh generator return
NumDraws == 11 + 3
rngValues(baseSeed) == [n \in 1..NumDraws |-> RngWord(RngStepN(mulberry32(baseSeed), n))]

\* a faulty variant: the guard caps the value instead of lifting it
CoerceBelow(v, floor, eps) == IF v > floor THEN floor ELSE v

\* if (!(v > floor)) v = floor + eps
CoerceAbove(v, floor, eps) == IF v > floor THEN v ELSE floor + eps

\* generateScenarioFromSeed in stages; u[n] is the value of the n-th call of rng.
\* The eight draws every tier makes
baseDraws(u, ranges) ==
  [income |-> randInt(u[1], ranges.income[1], ranges.income[2]),
   wrr |-> randFloat(u[2], ranges.wrr[1], ranges.wrr[2]),
   ss |-> randInt(u[3], ranges.ss[1], ranges.ss[2]),
   rwle |-> randInt(u[4], ranges.rwle[1], ranges.rwle[2]),
   rle |-> randInt(u[5], ranges.rle[1], ranges.rle[2]),
   g |-> randFloat(u[6], ranges.g[1], ranges.g[2]),
   r |-> CoerceAbove(randFloat(u[7], ranges.r[1], ranges.r[2]),
                     randFloat(u[6], ranges.g[1], ranges.g[2]), 5),
   pvcur |-> randInt(u[8], ranges.pvcur[1], ranges.pvcur[2])]

\* a faulty variant: easy mode only zeroes the savings
easyModeUnrounded(b, u) == [b EXCEPT !.pvcur = 0]

\* easy mode: clean numbers and zero current savings
easyMode(b, u) ==
  [income |-> RoundTo(b.income, 1000),
   wrr |-> wrrChoices[1 + randInt(u[9], 0, Len(wrrChoices) - 1)],
   ss |-> RoundTo(b.ss, 1000),
   rwle |-> RoundTo(b.rwle, 5),
   rle |-> RoundTo(b.rle, 5),
   g |-> gChoices[1 + randInt(u[10], 0, Len(gChoices) - 1)],
   r |-> CoerceAbove(rChoices[1 + randInt(u[11], 0, Len(rChoices) - 1)],
                     gChoices[1 + randInt(u[10], 0, Len(gChoices) - 1)], 50),
   pvcur |-> 0]

\* hard mode: a separate return during retirement
hardRetire(b, u) == Some(CoerceAbove(Max(0, b.r + randFloat(u[9], -200, 200)), b.g, 5))

\* a faulty variant: the bequest is not rounded to the nearest 1000
hardBequestRaw(b, rDuring, u) ==
  Some(Max(0, MulDiv(capitalAnnuity(MulDiv(Max(0, MulDiv(b.income, b.wrr) - b.ss),
                                           PowFix(SCALE + b.g, b.rwle)),
                                    computeRealRate(rDuring, b.g), b.rle),
                     randFloat(u[10], 500, 2500))))

\* hard mode: a bequest proportional to the annuity nest egg
hardBequest(b, rDuring, u) ==
  Some(Max(0, RoundTo(MulDiv(capitalAnnuity(MulDiv(Max(0, MulDiv(b.income, b.wrr) - b.ss),
                                                   PowFix(SCALE + b.g, b.rwle)),
                                            computeRealRate(rDuring, b.g), b.rle),
                             randFloat(u[10], 500, 2500)), 1000)))

\* the name and the bio, drawn after `used` earlier calls, and the returned object
returned(b, rRetire, bequest, u, used) ==
  [name |-> <<NAMES[1 + randInt(u[used + 1], 0, Len(NAMES) - 1)],
              LAST[1 + randInt(u[used + 2], 0, Len(LAST) - 1)]>>,
   bio |-> BIOS[1 + randInt(u[used + 3], 0, Len(BIOS) - 1)],
   income |-> b.income, wrr |-> b.wrr, ss |-> b.ss, rwle |-> b.rwle, rle |-> b.rle,
   g |-> b.g, r |-> b.r, pvcur |-> b.pvcur, rRetire |-> rRetire, bequest |-> bequest]

hardMode(b, rRetire, u) == returned(b, rRetire, hardBequest(b, rRetire[1], u), u, 10)

ScenarioFromDraws(u, level) ==
  IF level = "easy" THEN returned(easyMode(baseDraws(u, RANGES(level)), u), Undefined, Undefined, u, 11)
  ELSE IF level = "hard" THEN hardMode(baseDraws(u, RANGES(level)),
                                       hardRetire(baseDraws(u, RANGES(level)), u), u)
  ELSE returned(baseDraws(u, RANGES(level)), Undefined, Undefined, u, 8)

generateScenarioFromSeed(baseSeed, level) == ScenarioFromDraws(rngValues(baseSeed), level)

\* ------------------------------------------------------------------------
\* Text: formatters.ts and the parsing inside grade().  A string is a
\* sequence of one-character strings.
\* ------------------------------------------------------------------------

DigitChars == <<"0", "1", "2", "3", "4", "5", "6", "7", "8", "9">>
DigitSet == {"0", "1", "2", "3", "4", "5", "6", "7", "8", "9"}
IsDigit(c) == c \in DigitSet
DigitVal(c) ==
  CASE c = "0" -> 0 [] c = "1" -> 1 [] c = "2" -> 2 [] c = "3" -> 3 [] c = "4" -> 4
    [] c = "5" -> 5 [] c = "6" -> 6 [] c = "7" -> 7 [] c = "8" -> 8 [] OTHER -> 9

RECURSIVE Pow10(_)
Pow10(n) == IF n = 0 THEN 1 ELSE 10 * Pow10(n - 1)

\* str.replace(/[^0-9.\-]/g, "")
NumericChars == DigitSet \cup {".", "-"}
StripNumeric(str) == SelectSeq(str, LAMBDA c : c \in NumericChars)

\* str.replace(/[^0-9\-]/g, "")
IntegerChars == DigitSet \cup {"-"}
StripInteger(str) == SelectSeq(str, LAMBDA c : c \in IntegerChars)

\* the longest prefix of digits
RECURSIVE DigitPrefix(_)
DigitPrefix(str) ==
  IF str = << >> \/ ~IsDigit(Head(str)) THEN << >>
  ELSE <<Head(str)>> \o DigitPrefix(Tail(str))

\* the natural number a sequence of digits writes
RECURSIVE DigitsToNat(_)
DigitsToNat(ds) ==
  IF ds = << >> THEN 0
  ELSE 10 * DigitsToNat(SubSeq(ds, 1, Len(ds) - 1)) + DigitVal(ds[Len(ds)])

\* parseFloat on a stripped string: an optional "-", digits, an optional "."
\* and digits; the longest such prefix.  [k, s, i, f, e] is the number
\* s * (i + f / 10^e).
parseFloat(str) ==
  LET neg == str # << >> /\ Head(str) = "-"
      body == IF neg THEN Tail(str) ELSE str
      ip == DigitPrefix(body)
      rest == SubSeq(body, Len(ip) + 1, Len(body))
      fp == IF rest # << >> /\ Head(rest) = "." THEN DigitPrefix(Tail(rest)) ELSE << >>
  IN IF ip = << >> /\ fp = << >> THEN [k |-> "nan", s |-> 1, i |-> 0, f |-> 0, e |-> 0]
     ELSE [k |-> "fin", s |-> IF neg THEN -1 ELSE 1, i |-> DigitsToNat(ip),
           f |-> DigitsToNat(fp), e |-> Len(fp)]

\* parseInt(str, 10) on a stripped string
parseInt(str) ==
  LET neg == str # << >> /\ Head(str) = "-"
      body == IF neg THEN Tail(str) ELSE str
      ip == DigitPrefix(body)
  IN IF ip = << >> THEN NaN
     ELSE Fin(IF neg THEN -DigitsToNat(ip) ELSE DigitsToNat(ip))

\* a parsed decimal in whole dollars, truncated toward zero
Dollars(pf) == pf.s * pf.i

\* parseCurrencyToNumber(input)
parseCurrencyToNumber(input) ==
  LET n == parseFloat(StripNumeric(input))
  IN IF n.k = "fin" THEN Dollars(n) ELSE 0

\* parsePercentToDecimal(input), in basis points; the trimmed input is empty
\* exactly when it holds nothing but spaces
parsePercentToDecimal(input) ==
  LET raw == SelectSeq(input, LAMBDA c : c # " ")
      hasPct == \E i \in 1..Len(input) : input[i] = "%"
      n == parseFloat(StripNumeric(input))
      bp(mult) == n.s * (n.i * mult + (n.f * mult) \div Pow10(n.e))
  IN IF raw = << >> THEN 0
     ELSE IF n.k # "fin" THEN 0
     ELSE IF hasPct \/ (n.s = 1 /\ (n.i > 1 \/ (n.i = 1 /\ n.f > 0))) THEN bp(100) ELSE bp(SCALE)

\* parseInteger(input)
parseInteger(input) ==
  LET n == parseInt(StripInteger(input))
  IN IF n.k = "fin" THEN n.v ELSE 0

\* the decimal digits of a natural number
RECURSIVE NatToDigits(_)
NatToDigits(n) ==
  IF n < 10 THEN <<DigitChars[n + 1]>>
  ELSE NatToDigits(n \div 10) \o <<DigitChars[(n % 10) + 1]>>

\* digits with a comma before every group of three
RECURSIVE GroupDigits(_)
GroupDigits(ds) ==
  IF Len(ds) <= 3 THEN ds
  ELSE GroupDigits(SubSeq(ds, 1, Len(ds) - 3)) \o <<",">> \o SubSeq(ds, Len(ds) - 2, Len(ds))

\* formatCurrency(value) of a JS number holding whole dollars
formatCurrency(value) ==
  IF value.k # "fin" THEN <<"$", "0", ".", "0", "0">>
  ELSE (IF value.v < 0 THEN <<"-">> ELSE << >>) \o <<"$">>
       \o GroupDigits(NatToDigits(Abs(value.v))) \o <<".", "0", "0">>

\* ------------------------------------------------------------------------
\* The truth of a scenario and the grading of one answer
\* ------------------------------------------------------------------------

timing == "END"

blank ==
  [name |-> <<"", "">>, bio |-> "", income |-> 0, wrr |-> 0, ss |-> 0, rwle |-> 0, rle |-> 0,
   g |-> 0, r |-> 0, pvcur |-> 0, rRetire |-> Undefined, bequest |-> Undefined]

\* a faulty variant: the bequest is left out of the annuity capital
computeGameTruthNoBequest(scn, tm) ==
  LET need_today == Max(0, MulDiv(scn.income, scn.wrr) - scn.ss)
      PMT1 == MulDiv(need_today, PowFix(SCALE + scn.g, scn.rwle))
      rDuring == IF IsNumber(scn.rRetire) THEN scn.rRetire[1] ELSE scn.r
      r_real == computeRealRate(rDuring, scn.g)
      capA == capitalAnnuity(PMT1, r_real, scn.rle)
      keepCPM == DivFix(capA, PowFix(SCALE + rDuring, scn.rle))
      keepPPPM == DivFix(capA, PowFix(SCALE + r_real, scn.rle))
  IN [need_today |-> need_today, PMT1 |-> PMT1, r_real |-> r_real, capA |-> Fin(capA),
      keepCPM |-> keepCPM, totalCPM |-> Fin(capA + keepCPM), keepPPPM |-> keepPPPM,
      totalPPPM |-> Fin(capA + keepPPPM),
      svA |-> annualSavings(scn.pvcur, capA, scn.r, scn.rwle, tm),
      svCPM |-> annualSavings(scn.pvcur, capA + keepCPM, scn.r, scn.rwle, tm),
      svPPPM |-> annualSavings(scn.pvcur, capA + keepPPPM, scn.r, scn.rwle, tm)]

computeGameTruth(scn, tm) ==
  LET need_today == Max(0, MulDiv(scn.income, scn.wrr) - scn.ss)
      PMT1 == MulDiv(need_today, PowFix(SCALE + scn.g, scn.rwle))
      rDuring == IF IsNumber(scn.rRetire) THEN scn.rRetire[1] ELSE scn.r
      r_real == computeRealRate(rDuring, scn.g)
      bequestPV == IF IsNumber(scn.bequest) /\ scn.bequest[1] # 0
                   THEN DivFix(scn.bequest[1], PowFix(SCALE + r_real, scn.rle)) ELSE 0
      capA == capitalAnnuity(PMT1, r_real, scn.rle) + bequestPV
      keepCPM == DivFix(capA, PowFix(SCALE + rDuring, scn.rle))
      totalCPM == capA + keepCPM
      keepPPPM == DivFix(capA, PowFix(SCALE + r_real, scn.rle))
      totalPPPM == capA + keepPPPM
  IN [need_today |-> need_today, PMT1 |-> PMT1, r_real |-> r_real, capA |-> Fin(capA),
      keepCPM |-> keepCPM, totalCPM |-> Fin(totalCPM), keepPPPM |-> keepPPPM,
      totalPPPM |-> Fin(totalPPPM),
      svA |-> annualSavings(scn.pvcur, capA, scn.r, scn.rwle, tm),
      svCPM |-> annualSavings(scn.pvcur, totalCPM, scn.r, scn.rwle, tm),
      svPPPM |-> annualSavings(scn.pvcur, totalPPPM, scn.r, scn.rwle, tm)]

tolDollar == 500
tolPctStrict == 1      \* 0.01, in hundredths

\* a faulty variant: the difference without Math.abs
SignedErr(userVal, truthVal) ==
  IF userVal.k = "nan" \/ truthVal.k = "nan" THEN [k |-> "nan", v |-> 0]
  ELSE IF userVal.k = "inf" \/ truthVal.k = "inf" THEN [k |-> "inf", v |-> 0]
  ELSE [k |-> "fin", v |-> userVal.v - truthVal.v]

\* Math.abs(userVal - truthVal)
AbsErr(userVal, truthVal) ==
  IF userVal.k = "nan" \/ truthVal.k = "nan" THEN NaN
  ELSE IF userVal.k = "inf" /\ truthVal.k = "inf" THEN NaN
  ELSE IF userVal.k = "inf" \/ truthVal.k = "inf" THEN Infinity
  ELSE Fin(Abs(userVal.v - truthVal.v))

\* pctErr <= tolPctStrict: a comparison with NaN is false, Infinity/Infinity is
\* NaN, and for whole numbers a/|t| <= p/100 exactly when a <= (|t|*p) \div 100
PctWithin(absErr, truthVal) ==
  IF truthVal = Fin(0)
  THEN (IF absErr.k = "inf" \/ (absErr.k = "fin" /\ absErr.v > 0) THEN 100 ELSE 0) <= tolPctStrict
  ELSE /\ absErr.k = "fin"
       /\ truthVal.k = "fin"
       /\ absErr.v <= (Abs(truthVal.v) \div 100) * tolPctStrict
                        + ((Abs(truthVal.v) % 100) * tolPctStrict) \div 100

\* a faulty variant: both tolerances are required
gradeBoth(userVal, truthVal) ==
  LET d == IF userVal.k = "fin" /\ truthVal.k = "fin" THEN Abs(userVal.v - truthVal.v) ELSE -1
  IN IF d >= 0 /\ 100 * d <= Abs(truthVal.v) /\ d <= 500 THEN "correct" ELSE "incorrect"

gradeOne(userVal, truthVal) ==
  LET absErr == AbsErr(userVal, truthVal)
  IN IF PctWithin(absErr, truthVal) \/ (absErr.k = "fin" /\ absErr.v <= tolDollar)
     THEN "correct" ELSE "incorrect"

Methods == {"ann", "cpm", "pppm"}
CapKey(m) == CASE m = "ann" -> "cap_ann" [] m = "cpm" -> "cap_cpm" [] OTHER -> "cap_pppm"
SvKey(m) == CASE m = "ann" -> "sv_ann" [] m = "cpm" -> "sv_cpm" [] OTHER -> "sv_pppm"
CapTruth(m, truth) == CASE m = "ann" -> truth.capA [] m = "cpm" -> truth.totalCPM [] OTHER -> truth.totalPPPM
SvTruth(m, truth) == CASE m = "ann" -> truth.svA [] m = "cpm" -> truth.svCPM [] OTHER -> truth.svPPPM

NoEntries == [key \in {} |-> ""]

\* parseFloat((answers[k] || "0").toString().replace(/[^0-9.\-]/g, ""))
AnswerValue(ans, key) ==
  LET text == IF key \in DOMAIN ans /\ ans[key] # << >> THEN ans[key] ELSE <<"0">>
      n == parseFloat(StripNumeric(text))
  IN IF n.k = "fin" THEN Fin(Dollars(n)) ELSE NaN

\* a faulty variant: only the capital field of the active method is graded
GradeResCapOnly(m, ans, truth) ==
  [key \in {CapKey(m)} |-> gradeOne(AnswerValue(ans, key), CapTruth(m, truth))]

\* res of grade(): the two fields of the active method
GradeRes(m, ans, truth) ==
  [key \in {CapKey(m), SvKey(m)} |->
     IF key = CapKey(m) THEN gradeOne(AnswerValue(ans, key), CapTruth(m, truth))
     ELSE gradeOne(AnswerValue(ans, key), SvTruth(m, truth))]

\* ------------------------------------------------------------------------
\* The component BAIIHowToModule: bounds and the inputs a user may give
\* ------------------------------------------------------------------------

MaxProblemIndex == 1      \* New Problem is pressed at most this often per seed
MaxAttempts == 1          \* Check Answers is pressed at most this often per run
MaxEdits == 1             \* scenario fields edited per generated scenario
MaxCanvasEdits == 3       \* canvas fields typed between two resets

Modes == {"game", "canvas"}

\* the seed whose problem 0 gets the seed of problem 1 of base seed 0
SeedB == Xor32(GOLD, Imul(Word(2), GOLD))
RandomSeeds == {SeedB}
SeedTexts == {<<"x">>}

ScenarioFields == {"income", "wrr", "ss", "rwle", "rle", "g", "r", "rRetire", "pvcur", "bequest"}

\* what is typed into a scenario field of the game
EditTexts(field) ==
  CASE field = "income" -> {<<"$", "1", "2", "0", ",", "0", "0", "0">>}
    [] field = "wrr" -> {<<"8", "0", "%">>}
    [] field = "ss" -> {<<"a", "b", "c">>}
    [] field = "rwle" -> {<<"0">>}
    [] field = "rle" -> {<<"1", "0">>}
    [] field = "g" -> {<<"9", "%">>}
    [] field = "r" -> {<<"3", "%">>}
    [] field = "rRetire" -> {<<"1", "%">>}
    [] field = "pvcur" -> {<<"$", "9", ",", "0", "0", "0", ",", "0", "0", "0">>}
    [] OTHER -> {<<"5", "0", "0", "0", "0">>}

\* what is typed into a field of the canvas
CanvasTexts(field) ==
  CASE field = "income" -> {<<"$", "1", "0", "0", ",", "0", "0", "0">>}
    [] field = "wrr" -> {<<"8", "0", "%">>}
    [] field = "ss" -> {<<"2", "0", "0", "0", "0">>}
    [] field = "rwle" -> {<<"1", "0">>}
    [] field = "rle" -> {<<"2", "0">>}
    [] field = "g" -> {<<"3", "%">>}
    [] field = "r" -> {<<"2", "%">>, <<"7", "%">>}
    [] field = "rRetire" -> {<<"1", "%">>}
    [] field = "pvcur" -> {<<"5", "0", "0", "0">>}
    [] OTHER -> {<<"5", "0", "0", "0", "0">>}

\* what is typed into an answer field: the solution as the page shows it, into
\* the capital field; the savings field is left as it is
AnswerTexts(truthVal) == {formatCurrency(truthVal)}
AnswerKeys(m) == {CapKey(m)}

emptyCanvas == [field \in ScenarioFields |-> << >>]
NoStats == [attempted |-> 0, allCorrect |-> 0, correct |-> 0, incorrect |-> 0]

\* parseInt(e.target.value || "0", 10) || 0
SeedOfText(t) ==
  LET n == parseInt(IF t = << >> THEN <<"0">> ELSE t)
  IN Word(IF n.k = "fin" THEN n.v ELSE 0)

\* useMemo(() => splitSeed(seed, problemIndex))
seedForProblem == splitSeed(seed, problemIndex)

\* the seeds the bounds let a problem have, and the scenario of each
ProblemSeeds ==
  {splitSeed(b, i) : b \in RandomSeeds \cup {SeedOfText(t) : t \in SeedTexts},
                     i \in 0..MaxProblemIndex}
Generated ==
  {[s |-> s, lv |-> lv, scn |-> scn, truth |-> computeGameTruth(scn, timing)] :
     <<s, lv, scn>> \in {<<s, lv, generateScenarioFromSeed(s, lv)>> :
                            s \in ProblemSeeds, lv \in Difficulties}}
GeneratedFor(s, lv) == CHOOSE e \in Generated : e.s = s /\ e.lv = lv

\* the state every useState hook starts from, whatever the mode
InitHooks ==
  /\ mounted = FALSE
  /\ stats = NoStats
  /\ difficulty = "normal"
  /\ seed = Word(0)
  /\ problemIndex = 0
  /\ canvasInputs = emptyCanvas
  /\ activeMethod = "ann"
  /\ answers = NoEntries
  /\ statuses = NoEntries
  /\ showSolution = FALSE
  /\ showDetails = FALSE
  /\ edits = 0

Init ==
  /\ calls = << >>
  /\ mode \in Modes
  /\ InitHooks
  /\ gameScenario = IF mode = "canvas" THEN blank
                    ELSE GeneratedFor(splitSeed(Word(0), 0), "normal").scn
  /\ gameTruth = computeGameTruth(gameScenario, timing)

\* the regeneration effect, run because seedForProblem or difficulty changed
Regenerate(s, lv) ==
  /\ \E e \in {GeneratedFor(s, lv)} :
       /\ gameScenario' = e.scn
       /\ gameTruth' = e.truth
  /\ answers' = NoEntries
  /\ statuses' = NoEntries
  /\ showSolution' = FALSE
  /\ showDetails' = FALSE
  /\ edits' = 0

KeepProblem ==
  UNCHANGED <<gameScenario, gameTruth, answers, statuses, showSolution, showDetails, edits>>

\* the effects after the first render: a random method, the scenario of the
\* initial seed, then a random seed and the scenario of that seed
Mount ==
  /\ ~mounted
  /\ mounted' = TRUE
  /\ IF mode = "game"
     THEN /\ activeMethod' \in Methods
          /\ \E s \in RandomSeeds :
               /\ seed' = s
               /\ Regenerate(splitSeed(s, 0), difficulty)
     ELSE UNCHANGED <<activeMethod, seed>> /\ KeepProblem
  /\ problemIndex' = 0
  /\ UNCHANGED <<mode, stats, difficulty, canvasInputs, calls>>

setDifficulty ==
  /\ mounted /\ mode = "game"
  /\ \E lv \in Difficulties :
       /\ difficulty' = lv
       /\ IF lv # difficulty THEN Regenerate(seedForProblem, lv) ELSE KeepProblem
  /\ UNCHANGED <<mode, mounted, stats, seed, problemIndex, canvasInputs, activeMethod, calls>>

\* setSeed(parseInt(e.target.value || "0", 10) || 0)
setSeed ==
  /\ mounted /\ mode = "game"
  /\ \E t \in SeedTexts :
       LET s == SeedOfText(t)
       IN /\ seed' = s
          /\ IF splitSeed(s, problemIndex) # seedForProblem
             THEN Regenerate(splitSeed(s, problemIndex), difficulty) ELSE KeepProblem
  /\ UNCHANGED <<mode, mounted, stats, difficulty, problemIndex, canvasInputs, activeMethod, calls>>

NewProblem ==
  /\ mounted /\ mode = "game"
  /\ problemIndex < MaxProblemIndex
  /\ problemIndex' = problemIndex + 1
  /\ activeMethod' \in Methods
  /\ IF splitSeed(seed, problemIndex + 1) # seedForProblem
     THEN Regenerate(splitSeed(seed, problemIndex + 1), difficulty) ELSE KeepProblem
  /\ UNCHANGED <<mode, mounted, stats, difficulty, seed, canvasInputs, calls>>

Reseed ==
  /\ mounted /\ mode = "game"
  /\ \E s \in RandomSeeds :
       /\ seed' = s
       /\ IF splitSeed(s, 0) # seedForProblem
          THEN Regenerate(splitSeed(s, 0), difficulty) ELSE KeepProblem
  /\ problemIndex' = 0
  /\ IF problemIndex # 0 THEN activeMethod' \in Methods ELSE UNCHANGED activeMethod
  /\ UNCHANGED <<mode, mounted, stats, difficulty, canvasInputs, calls>>

resetRun ==
  /\ mounted
  /\ stats' = NoStats
  /\ answers' = NoEntries
  /\ statuses' = NoEntries
  /\ showSolution' = FALSE
  /\ showDetails' = FALSE
  /\ IF mode = "canvas"
     THEN /\ canvasInputs' = emptyCanvas
          /\ gameScenario' = blank
          /\ gameTruth' = computeGameTruth(blank, timing)
          /\ edits' = 0
     ELSE UNCHANGED <<canvasInputs, gameScenario, gameTruth, edits>>
  /\ UNCHANGED <<mode, mounted, difficulty, seed, problemIndex, activeMethod, calls>>

\* ------------------------------------------------------------------------
\* Game mode: editing the scenario, answering, grading
\* ------------------------------------------------------------------------

CanEdit == mounted /\ mode = "game" /\ edits < MaxEdits

\* a faulty variant: the edited scenario is stored and the truth is left as it was
ApplyEditStale(ns) ==
  /\ gameScenario' = ns
  /\ edits' = edits + 1
  /\ UNCHANGED <<mode, mounted, stats, difficulty, seed, problemIndex, gameTruth, canvasInputs,
                 activeMethod, answers, statuses, showSolution, showDetails, calls>>

\* setGameScenario(ns); setGameTruth(computeGameTruth(ns, timing))
ApplyEdit(ns) ==
  /\ gameScenario' = ns
  /\ gameTruth' = computeGameTruth(ns, timing)
  /\ edits' = edits + 1
  /\ UNCHANGED <<mode, mounted, stats, difficulty, seed, problemIndex, canvasInputs,
                 activeMethod, answers, statuses, showSolution, showDetails, calls>>

editIncome ==
  /\ CanEdit
  /\ \E t \in EditTexts("income") :
       ApplyEdit([gameScenario EXCEPT !.income = parseCurrencyToNumber(t)])

editWrr ==
  /\ CanEdit
  /\ \E t \in EditTexts("wrr") :
       ApplyEdit([gameScenario EXCEPT !.wrr = parsePercentToDecimal(t)])

editSs ==
  /\ CanEdit
  /\ \E t \in EditTexts("ss") :
       ApplyEdit([gameScenario EXCEPT !.ss = parseCurrencyToNumber(t)])

editRwle ==
  /\ CanEdit
  /\ \E t \in EditTexts("rwle") :
       ApplyEdit([gameScenario EXCEPT !.rwle = parseInteger(t)])

editRle ==
  /\ CanEdit
  /\ \E t \in EditTexts("rle") :
       ApplyEdit([gameScenario EXCEPT !.rle = parseInteger(t)])

\* the inflation handler stores the parsed value as it is
editG ==
  /\ CanEdit
  /\ \E t \in EditTexts("g") :
       ApplyEdit([gameScenario EXCEPT !.g = parsePercentToDecimal(t)])

\* if (!(ns.r > ns.g)) ns.r = ns.g + 0.0005
editR ==
  /\ CanEdit
  /\ \E t \in EditTexts("r") :
       ApplyEdit([gameScenario EXCEPT
                    !.r = CoerceAbove(parsePercentToDecimal(t), gameScenario.g, 5)])

\* shown on the hard tier only
editRRetire ==
  /\ CanEdit
  /\ difficulty = "hard"
  /\ \E t \in EditTexts("rRetire") :
       ApplyEdit([gameScenario EXCEPT
                    !.rRetire = Some(CoerceAbove(parsePercentToDecimal(t), gameScenario.g, 5))])

editPvcur ==
  /\ CanEdit
  /\ \E t \in EditTexts("pvcur") :
       ApplyEdit([gameScenario EXCEPT !.pvcur = parseCurrencyToNumber(t)])

\* shown on the hard tier when the method is the annuity
editBequest ==
  /\ CanEdit
  /\ difficulty = "hard" /\ activeMethod = "ann"
  /\ \E t \in EditTexts("bequest") :
       ApplyEdit([gameScenario EXCEPT !.bequest = Some(parseCurrencyToNumber(t))])

\* setAnswers({ ...answers, [key]: e.target.value }) on a field of the active method
setAnswer ==
  /\ mounted /\ mode = "game"
  /\ \E key \in AnswerKeys(activeMethod) :
       \E t \in AnswerTexts(IF key = CapKey(activeMethod) THEN CapTruth(activeMethod, gameTruth)
                            ELSE SvTruth(activeMethod, gameTruth)) :
         answers' = [k \in DOMAIN answers \cup {key} |-> IF k = key THEN t ELSE answers[k]]
  /\ UNCHANGED <<mode, mounted, stats, difficulty, seed, problemIndex, gameScenario, gameTruth,
                 canvasInputs, activeMethod, statuses, showSolution, showDetails, edits, calls>>

\* faulty variants: every graded field counts as correct; the count is negated
NumGraded(res) == Cardinality(DOMAIN res)
NumCorrectNegated(res) == 0 - Cardinality({k \in DOMAIN res : res[k] = "correct"})

\* the number of fields of res that hold "correct"
NumCorrect(res) == Cardinality({k \in DOMAIN res : res[k] = "correct"})

grade ==
  /\ mounted /\ mode = "game"
  /\ stats.attempted < MaxAttempts
  /\ LET res == GradeRes(activeMethod, answers, gameTruth)
         numCorrect == NumCorrect(res)
         numIncorrect == Cardinality(DOMAIN res) - numCorrect
     IN /\ statuses' = res
        /\ stats' = [attempted |-> stats.attempted + 1,
                     allCorrect |-> stats.allCorrect + (IF numIncorrect = 0 THEN 1 ELSE 0),
                     correct |-> stats.correct + numCorrect,
                     incorrect |-> stats.incorrect + numIncorrect]
  /\ UNCHANGED <<mode, mounted, difficulty, seed, problemIndex, gameScenario, gameTruth,
                 canvasInputs, activeMethod, answers, showSolution, showDetails, edits, calls>>

toggleSolution ==
  /\ mounted /\ mode = "game"
  /\ showSolution' = ~showSolution
  /\ UNCHANGED <<mode, mounted, stats, difficulty, seed, problemIndex, gameScenario, gameTruth,
                 canvasInputs, activeMethod, answers, statuses, showDetails, edits, calls>>

toggleDetails ==
  /\ mounted /\ mode = "game"
  /\ showDetails' = ~showDetails
  /\ UNCHANGED <<mode, mounted, stats, difficulty, seed, problemIndex, gameScenario, gameTruth,
                 canvasInputs, activeMethod, answers, statuses, showSolution, edits, calls>>

\* ------------------------------------------------------------------------
\* Canvas mode
\* ------------------------------------------------------------------------

\* setCanvasInputs({ ...canvasInputs, [field]: e.target.value })
setCanvasInput ==
  /\ mounted /\ mode = "canvas"
  /\ edits < MaxCanvasEdits
  /\ \E field \in ScenarioFields :
       \E t \in CanvasTexts(field) \ {canvasInputs[field]} :
         canvasInputs' = [canvasInputs EXCEPT ![field] = t]
  /\ edits' = edits + 1
  /\ UNCHANGED <<mode, mounted, stats, difficulty, seed, problemIndex, gameScenario, gameTruth,
                 activeMethod, answers, statuses, showSolution, showDetails, calls>>

\* text || "0"
OrZero(t) == IF t = << >> THEN <<"0">> ELSE t

submitCanvas ==
  /\ mounted /\ mode = "canvas"
  /\ LET gNew == parsePercentToDecimal(OrZero(canvasInputs.g))
         rNew == CoerceAbove(parsePercentToDecimal(OrZero(canvasInputs.r)), gNew, 5)
         rRetNew == IF canvasInputs.rRetire # << >>
                    THEN parsePercentToDecimal(canvasInputs.rRetire) ELSE rNew
         ns == [gameScenario EXCEPT
                  !.income = parseCurrencyToNumber(OrZero(canvasInputs.income)),
                  !.wrr = parsePercentToDecimal(OrZero(canvasInputs.wrr)),
                  !.ss = parseCurrencyToNumber(OrZero(canvasInputs.ss)),
                  !.rwle = parseInteger(OrZero(canvasInputs.rwle)),
                  !.rle = parseInteger(OrZero(canvasInputs.rle)),
                  !.g = gNew,
                  !.r = rNew,
                  !.rRetire = Some(CoerceAbove(rRetNew, gNew, 5)),
                  !.pvcur = parseCurrencyToNumber(OrZero(canvasInputs.pvcur)),
                  !.bequest = IF canvasInputs.bequest # << >>
                              THEN Some(parseCurrencyToNumber(canvasInputs.bequest))
                              ELSE Undefined]
     IN /\ gameScenario' = ns
        /\ gameTruth' = computeGameTruth(ns, timing)
  /\ UNCHANGED <<mode, mounted, stats, difficulty, seed, problemIndex, canvasInputs,
                 activeMethod, answers, statuses, showSolution, showDetails, edits, calls>>

Next ==
  \/ Mount
  \/ setDifficulty
  \/ setSeed
  \/ NewProblem
  \/ Reseed
  \/ resetRun
  \/ editIncome
  \/ editWrr
  \/ editSs
  \/ editRwle
  \/ editRle
  \/ editG
  \/ editR
  \/ editRRetire
  \/ editPvcur
  \/ editBequest
  \/ setAnswer
  \/ grade
  \/ toggleSolution
  \/ toggleDetails
  \/ setCanvasInput
  \/ submitCanvas

Spec == Init /\ [][Next]_vars

\* ------------------------------------------------------------------------
\* Functions studied on their own: the arguments are drawn at the start and
\* each step makes the next call.  The component stays an untouched canvas.
\* ------------------------------------------------------------------------

MaxCalls == 2             \* calls of generateScenarioFromSeed per behaviour
NumDerived == 10          \* problem indices 0 .. NumDerived-1 derived from one base seed

Request(fn, args) == [fn |-> fn, args |-> args, done |-> FALSE, result |-> << >>]

IdleCanvas ==
  /\ mode = "canvas"
  /\ InitHooks
  /\ gameScenario = blank
  /\ gameTruth = computeGameTruth(blank, timing)

ComponentVars ==
  <<mode, mounted, stats, difficulty, seed, problemIndex, gameScenario, gameTruth,
    canvasInputs, activeMethod, answers, statuses, showSolution, showDetails, edits>>

\* the first call not made yet
NextCall == CHOOSE i \in 1..Len(calls) : ~calls[i].done /\ \A j \in 1..(i - 1) : calls[j].done

Return(value) ==
  /\ calls' = [calls EXCEPT ![NextCall] = [@ EXCEPT !.done = TRUE, !.result = value]]
  /\ UNCHANGED ComponentVars

GenSeeds == {W(hi, lo) : hi \in {0, 7, 40503, 65535}, lo \in {0, 1, 42, 31161, 51831, 65535}}

InitGen ==
  /\ \E s \in GenSeeds, lv \in Difficulties :
       calls = [i \in 1..MaxCalls |-> Request("generateScenarioFromSeed", <<s, lv>>)]
  /\ IdleCanvas

callGenerate ==
  /\ \E i \in 1..Len(calls) : ~calls[i].done
  /\ Return(generateScenarioFromSeed(calls[NextCall].args[1], calls[NextCall].args[2]))

SpecGen == InitGen /\ [][callGenerate]_vars

FinAmounts == {0, 50000, 400000}
FinTargets == {0, 100000, 1000000, 3000000}
FinRates == {-500, 0, 5, 800}
FinYears == {1, 10, 35}

InitFin ==
  /\ \E pv \in FinAmounts, target \in FinTargets, rate \in FinRates, years \in FinYears,
        tm \in {"END", "BEGIN"} :
       calls = <<Request("annualSavings", <<pv, target, rate, years, tm>>)>>
  /\ IdleCanvas

callAnnualSavings ==
  /\ \E i \in 1..Len(calls) : ~calls[i].done
  /\ LET a == calls[NextCall].args
     IN Return(annualSavings(a[1], a[2], a[3], a[4], a[5]))

SpecFin == InitFin /\ [][callAnnualSavings]_vars

BaseSeeds ==
  {W(hi, lo) : hi \in {0, 1, 255, 32768, 40503, 48059, 65534, 65535},
               lo \in {0, 1, 42, 31161, 32768, 51831, 65534, 65535}}

InitSeed ==
  /\ \E b \in BaseSeeds : calls = <<Request("splitSeed", <<b>>)>>
  /\ IdleCanvas

\* the seeds of problems 0 .. NumDerived-1 of one base seed
callSplitSeed ==
  /\ \E i \in 1..Len(calls) : ~calls[i].done
  /\ Return([idx \in 0..(NumDerived - 1) |-> splitSeed(calls[NextCall].args[1], idx)])

SpecSeed == InitSeed /\ [][callSplitSeed]_vars

\* grade() on its own: any truth, any answers
GradeTruths == {Fin(0), Fin(300), Fin(100000), Infinity}
GradeTexts ==
  {<< >>, <<"0">>, <<"1", "0", "0">>, <<"5", "0", "1">>, <<"-", "6", "0", "0">>,
   <<"a", "b", "c">>, <<"-">>, <<"1", "0", "0", "9", "9", "9">>,
   <<"1", "0", "2", "0", "0", "0">>, <<"$", "1", "0", "1", ",", "0", "0", "0", ".", "0", "0">>}
GradeEntries == {Undefined} \cup {Some(t) : t \in GradeTexts}

TruthWith(capVal, svVal) ==
  [computeGameTruth(blank, timing) EXCEPT
     !.capA = capVal, !.totalCPM = capVal, !.totalPPPM = capVal,
     !.svA = svVal, !.svCPM = svVal, !.svPPPM = svVal]

AnswersWith(m, capEntry, svEntry) ==
  [key \in (IF IsNumber(capEntry) THEN {CapKey(m)} ELSE {})
           \cup (IF IsNumber(svEntry) THEN {SvKey(m)} ELSE {}) |->
     IF key = CapKey(m) THEN capEntry[1] ELSE svEntry[1]]

InitGrade ==
  /\ calls = << >>
  /\ mode = "game"
  /\ mounted = TRUE
  /\ stats = NoStats
  /\ difficulty = "normal"
  /\ seed = Word(0)
  /\ problemIndex = 0
  /\ canvasInputs = emptyCanvas
  /\ statuses = NoEntries
  /\ showSolution = FALSE
  /\ showDetails = FALSE
  /\ edits = 0
  /\ gameScenario = blank
  /\ activeMethod \in Methods
  /\ \E capVal \in GradeTruths, svVal \in {Fin(0), Fin(100000)} :
       gameTruth = TruthWith(capVal, svVal)
  /\ \E capEntry \in GradeEntries, svEntry \in {Undefined, Some(<<"1", "0", "2", "0", "0", "0">>)} :
       answers = AnswersWith(activeMethod, capEntry, svEntry)

SpecGrade == InitGrade /\ [][grade]_vars

\* computeGameTruth on its own: two scenarios that differ in the bequest only
TruthIncomes == {60000, 120000}
TruthRatios == {7000, 8500}
TruthPensions == {15000, 200000}
TruthYearsToRetire == {0, 20}
TruthYearsRetired == {0, 1, 25}
TruthInflations == {0, 300}
TruthReturns == {300, 800}
TruthRetireReturns == {Undefined, Some(500)}
TruthBequests == {<<Undefined, Some(50000)>>, <<Some(0), Some(50000)>>, <<Some(50000), Some(100000)>>}

InitTruth ==
  /\ \E income \in TruthIncomes, wrr \in TruthRatios, ss \in TruthPensions,
        rwle \in TruthYearsToRetire, rle \in TruthYearsRetired, g \in TruthInflations,
        r \in TruthReturns, rRetire \in TruthRetireReturns, bequests \in TruthBequests :
       calls = [i \in 1..2 |->
                  Request("computeGameTruth",
                          <<[blank EXCEPT !.income = income, !.wrr = wrr, !.ss = ss, !.rwle = rwle,
                                          !.rle = rle, !.g = g, !.r = r, !.rRetire = rRetire,
                                          !.bequest = bequests[i]]>>)]
  /\ IdleCanvas

callComputeGameTruth ==
  /\ \E i \in 1..Len(calls) : ~calls[i].done
  /\ Return(computeGameTruth(calls[NextCall].args[1], timing))

SpecTruth == InitTruth /\ [][callComputeGameTruth]_vars

\* Generators on their own: mulberry32 makes instances, and the calls of the
\* instances interleave in any order
MaxGenerators == 2        \* generator instances per behaviour
MaxDraws == 2             \* calls of one instance

RngSeeds == {W(0, 0), W(0, 42), W(40503, 31161), W(65535, 65535)}

InitRng ==
  /\ calls = << >>
  /\ IdleCanvas

\* const rng = mulberry32(a): a closure over its own counter t
callMulberry32 ==
  /\ Len(calls) < MaxGenerators
  /\ \E a \in RngSeeds :
       calls' = Append(calls, [fn |-> "mulberry32", args |-> <<a>>, done |-> TRUE,
                               result |-> << >>, t |-> mulberry32(a)])
  /\ UNCHANGED ComponentVars

\* rng(): advance the instance's counter and return the word made from it
callRng ==
  /\ \E i \in DOMAIN calls :
       /\ Len(calls[i].result) < MaxDraws
       /\ calls' = [calls EXCEPT ![i] = [@ EXCEPT !.t = RngStep(calls[i].t),
                                                  !.result = Append(@, RngWord(RngStep(calls[i].t)))]]
  /\ UNCHANGED ComponentVars

SpecRng == InitRng /\ [][callMulberry32 \/ callRng]_vars

\* capitalAnnuity on its own
CapPayments == {0, 1000, 50000}
CapRates == {-200, 0, 300, 800}
CapYears == {0, 1, 2, 20, 35}

InitCap ==
  /\ \E pmt1 \in CapPayments, rReal \in CapRates, years \in CapYears :
       calls = <<Request("capitalAnnuity", <<pmt1, rReal, years>>)>>
  /\ IdleCanvas

callCapitalAnnuity ==
  /\ \E i \in 1..Len(calls) : ~calls[i].done
  /\ LET a == calls[NextCall].args
     IN Return(capitalAnnuity(a[1], a[2], a[3]))

SpecCap == InitCap /\ [][callCapitalAnnuity]_vars

\* ------------------------------------------------------------------------
\* Properties
\* ------------------------------------------------------------------------

DoneCalls(fn) == {i \in DOMAIN calls : calls[i].fn = fn /\ calls[i].done}

C3_GeneratedRates ==
  \A i \in DoneCalls("generateScenarioFromSeed") :
    /\ calls[i].result.r > calls[i].result.g
    /\ IsNumber(calls[i].result.rRetire) => calls[i].result.rRetire[1] > calls[i].result.g

C3_Witness ==
  \E i \in DoneCalls("generateScenarioFromSeed") :
    /\ calls[i].args[2] = "hard"
    /\ IsNumber(calls[i].result.rRetire)
    /\ calls[i].result.rRetire[1] < calls[i].result.r

\* C2: in every reachable state the scenario has r > g, and rRetire > g when
\* rRetire is set.  The code breaks this: the canvas starts (and is reset to)
\* r = g = 0, and the game's inflation field stores g without looking at r.
C2_RateAboveInflation ==
  /\ gameScenario.r > gameScenario.g
  /\ IsNumber(gameScenario.rRetire) => gameScenario.rRetire[1] > gameScenario.g

\* a generated scenario whose inflation was retyped to a value not below r
C2_GameEditBreaks ==
  /\ mode = "game"
  /\ edits > 0
  /\ gameScenario.g > 0
  /\ gameScenario.r <= gameScenario.g

\* the capital field of the active method has been graded
CapGraded == CapKey(activeMethod) \in DOMAIN statuses
CapStatus == statuses[CapKey(activeMethod)]
CapUser == AnswerValue(answers, CapKey(activeMethod))
CapTruthNow == CapTruth(activeMethod, gameTruth)

\* C4: a graded field with a finite answer and a finite truth is correct
\* exactly when |user - truth| <= 1% of |truth| or |user - truth| <= 500.
C4_EitherTolerance ==
  (CapGraded /\ CapUser.k = "fin" /\ CapTruthNow.k = "fin") =>
    LET d == Abs(CapUser.v - CapTruthNow.v)
        relOk == IF CapTruthNow.v = 0 THEN d = 0 ELSE 100 * d <= Abs(CapTruthNow.v)
    IN (CapStatus = "correct") <=> (relOk \/ d <= 500)

C4_Witness ==
  /\ CapGraded
  /\ CapTruthNow = Fin(100000)
  /\ CapUser = Fin(100999)
  /\ CapStatus = "correct"
  /\ statuses[SvKey(activeMethod)] = "incorrect"
  /\ SvTruth(activeMethod, gameTruth) = Fin(100000)
  /\ AnswerValue(answers, SvKey(activeMethod)) = Fin(102000)

\* C5 as written: with truth 0, the answer 0 is correct and the answer 100 is
\* incorrect.
C5_Original ==
  (CapGraded /\ CapTruthNow = Fin(0)) =>
    /\ CapUser = Fin(0) => CapStatus = "correct"
    /\ CapUser = Fin(100) => CapStatus = "incorrect"

\* C5: with truth 0, a finite answer is correct exactly when it is within 500
\* of 0, so 0 and 100 are correct and 501 is incorrect.
C5_ZeroTruth ==
  (CapGraded /\ CapTruthNow = Fin(0) /\ CapUser.k = "fin") =>
    ((CapStatus = "correct") <=> (CapUser.v >= -500 /\ CapUser.v <= 500))

C5_Witness ==
  /\ CapGraded
  /\ CapTruthNow = Fin(0)
  /\ CapUser = Fin(100)
  /\ CapStatus = "correct"

\* the text typed into the capital field, "" when nothing was typed
CapText == IF CapKey(activeMethod) \in DOMAIN answers THEN answers[CapKey(activeMethod)] ELSE << >>

\* C6: an answer that is empty, missing or not a number after stripping is
\* graded as the answer 0 is.  The code grades NaN instead of 0 for text
\* without a number.
C6_UnparsableAsZero ==
  (CapGraded /\ (CapText = << >> \/ parseFloat(StripNumeric(CapText)).k # "fin")) =>
    CapStatus = gradeOne(Fin(0), CapTruthNow)

\* "abc" against the truth 300: the answer 0 would be correct
C6_Witness ==
  /\ CapGraded
  /\ CapText = <<"a", "b", "c">>
  /\ CapTruthNow = Fin(300)
  /\ CapStatus = "incorrect"
  /\ gradeOne(Fin(0), CapTruthNow) = "correct"

Counters == {"attempted", "allCorrect", "correct", "incorrect"}
CountIf(b) == IF b THEN 1 ELSE 0

\* C7: Check Answers grades exactly the capital and the savings field of the
\* active method, and adds 1 to attempted, 1 to allCorrect iff both are
\* correct, and to correct / incorrect the number of fields graded so.
C7_GradeUpdatesStats ==
  [][grade =>
       LET cap == CapKey(activeMethod)
           sv == SvKey(activeMethod)
       IN /\ DOMAIN statuses' = {cap, sv}
          /\ stats'.attempted = stats.attempted + 1
          /\ stats'.allCorrect = stats.allCorrect
               + CountIf(statuses'[cap] = "correct" /\ statuses'[sv] = "correct")
          /\ stats'.correct = stats.correct
               + CountIf(statuses'[cap] = "correct") + CountIf(statuses'[sv] = "correct")
          /\ stats'.incorrect = stats.incorrect
               + CountIf(statuses'[cap] = "incorrect") + CountIf(statuses'[sv] = "incorrect")]_vars

\* a graded problem with one field right and one wrong
C7_Witness ==
  /\ stats = [attempted |-> 1, allCorrect |-> 0, correct |-> 1, incorrect |-> 1]
  /\ DOMAIN statuses = {CapKey(activeMethod), SvKey(activeMethod)}
  /\ statuses[CapKey(activeMethod)] = "correct"
  /\ statuses[SvKey(activeMethod)] = "incorrect"

\* C8: a statistics counter decreases only by Reset Run, which zeroes all
\* four; New Problem, Re-seed, seed entry, difficulty change, scenario edits,
\* answer edits and the show/hide toggles leave the counters unchanged.
C8_CountersMonotone ==
  [][/\ (\E c \in Counters : stats'[c] < stats[c]) =>
          (resetRun /\ \A c \in Counters : stats'[c] = 0)
     /\ (\/ NewProblem \/ Reseed \/ setSeed \/ setDifficulty \/ setAnswer
         \/ toggleSolution \/ toggleDetails
         \/ editIncome \/ editWrr \/ editSs \/ editRwle \/ editRle \/ editG \/ editR
         \/ editRRetire \/ editPvcur \/ editBequest) => stats' = stats]_vars

\* counters that survived a New Problem after a graded attempt
C8_Witness ==
  /\ stats.attempted > 0
  /\ stats.correct + stats.incorrect > 0
  /\ problemIndex > 0
  /\ statuses = NoEntries

\* C9: annualSavings is never negative, and is 0 when PVcur*(1+r)^N >= K.
C9_SavingsNonNegative ==
  \A i \in DoneCalls("annualSavings") :
    LET a == calls[i].args
    IN /\ calls[i].result.k = "fin"
       /\ calls[i].result.v >= 0
       /\ MulDiv(a[1], PowFix(SCALE + a[3], a[4])) >= a[2] => calls[i].result = Fin(0)

\* savings that outgrow a positive target on their own
C9_Witness ==
  \E i \in DoneCalls("annualSavings") :
    /\ calls[i].args[1] > 0
    /\ calls[i].args[2] > calls[i].args[1]
    /\ calls[i].args[5] = "BEGIN"
    /\ calls[i].result = Fin(0)

\* C10: the seeds splitSeed(b, i), i = 0..9, of one base seed are pairwise distinct.
C10_DerivedSeedsDistinct ==
  \A c \in DoneCalls("splitSeed") :
    \A i, j \in DOMAIN calls[c].result : i # j => calls[c].result[i] # calls[c].result[j]

C10_Witness ==
  \E c \in DoneCalls("splitSeed") :
    /\ calls[c].args[1] = W(65535, 65535)
    /\ DOMAIN calls[c].result = 0..9
    /\ calls[c].result[0] = W(25032, 34374)

Between(v, lo, hi) == lo <= v /\ v <= hi

\* C11: an easy scenario has pvcur = 0, wrr, g and r from the clean lists,
\* income and ss multiples of 1000, rwle and rle multiples of 5.
C11_EasyIsClean ==
  \A i \in DoneCalls("generateScenarioFromSeed") :
    calls[i].args[2] = "easy" =>
      LET scn == calls[i].result
      IN /\ scn.pvcur = 0
         /\ scn.wrr \in {7000, 7500, 8000, 8500}
         /\ scn.g \in {200, 250, 300, 350}
         /\ scn.r \in {600, 700, 800, 900}
         /\ scn.income % 1000 = 0 /\ scn.ss % 1000 = 0
         /\ scn.rwle % 5 = 0 /\ scn.rle % 5 = 0

\* an easy scenario whose normal-tier sibling is not clean
C11_Witness ==
  \E i \in DoneCalls("generateScenarioFromSeed") :
    /\ calls[i].args[2] = "easy"
    /\ calls[i].result.income > 0
    /\ generateScenarioFromSeed(calls[i].args[1], "normal").income % 1000 # 0
    /\ generateScenarioFromSeed(calls[i].args[1], "normal").pvcur > 0

\* C19: every generated field lies in its tier's range of RANGES, so
\* rwle >= 10 and rle >= 20.
C19_WithinRanges ==
  \A i \in DoneCalls("generateScenarioFromSeed") :
    LET scn == calls[i].result
        ranges == RANGES(calls[i].args[2])
    IN /\ Between(scn.income, ranges.income[1], ranges.income[2])
       /\ Between(scn.ss, ranges.ss[1], ranges.ss[2])
       /\ Between(scn.rwle, ranges.rwle[1], ranges.rwle[2])
       /\ Between(scn.rle, ranges.rle[1], ranges.rle[2])
       /\ Between(scn.pvcur, ranges.pvcur[1], ranges.pvcur[2])
       /\ Between(scn.wrr, ranges.wrr[1], ranges.wrr[2])
       /\ Between(scn.g, ranges.g[1], ranges.g[2])
       /\ Between(scn.r, ranges.r[1], ranges.r[2])
       /\ scn.rwle >= 10 /\ scn.rle >= 20

\* a hard scenario that uses the part of its range the other tiers lack
C19_Witness ==
  \E i \in DoneCalls("generateScenarioFromSeed") :
    /\ calls[i].args[2] = "hard"
    /\ \/ calls[i].result.pvcur > 200000
       \/ calls[i].result.income > 120000
       \/ calls[i].result.rwle < 15

\* C20: rRetire and bequest are absent for easy and normal; for hard, rRetire
\* is within 2% of r (floored at 0, or g + 0.0005 when that is not above g)
\* and bequest is a non-negative multiple of 1000 between 5% and 25% of the
\* bequest-free annuity capital computed with rRetire, rounded to 1000.
C20_HardOnlyFields ==
  \A i \in DoneCalls("generateScenarioFromSeed") :
    LET scn == calls[i].result
    IN IF calls[i].args[2] # "hard"
       THEN scn.rRetire = Undefined /\ scn.bequest = Undefined
       ELSE /\ IsNumber(scn.rRetire) /\ IsNumber(scn.bequest)
            /\ \/ /\ scn.rRetire[1] > scn.g
                  /\ Max(0, scn.r - 200) <= scn.rRetire[1]
                  /\ scn.rRetire[1] < scn.r + 200
               \/ /\ scn.rRetire[1] = scn.g + 5
                  /\ scn.r - 200 <= scn.g
            /\ LET need == Max(0, MulDiv(scn.income, scn.wrr) - scn.ss)
                   capA_est == capitalAnnuity(MulDiv(need, PowFix(SCALE + scn.g, scn.rwle)),
                                              computeRealRate(scn.rRetire[1], scn.g), scn.rle)
               IN /\ scn.bequest[1] >= 0
                  /\ scn.bequest[1] % 1000 = 0
                  /\ 2 * scn.bequest[1] >= 2 * MulDiv(capA_est, 500) - 1000
                  /\ 2 * scn.bequest[1] <= 2 * MulDiv(capA_est, 2500) + 1000

C20_Witness ==
  \E i \in DoneCalls("generateScenarioFromSeed") :
    /\ calls[i].args[2] = "hard"
    /\ calls[i].result.bequest # Undefined
    /\ calls[i].result.bequest[1] > 0
    /\ calls[i].result.rRetire[1] # calls[i].result.r

\* C12: in every reachable state the truth is the engine's result for the
\* current scenario.
C12_TruthIsCurrent == gameTruth = computeGameTruth(gameScenario, timing)

\* a scenario changed by hand after a canvas Submit or a generation
C12_Witness ==
  /\ \/ mode = "game" /\ edits > 0
     \/ mode = "canvas" /\ gameScenario.income > 0
  /\ gameTruth.need_today > 0
  /\ gameTruth = computeGameTruth(gameScenario, timing)

TruthNumbers == {gameTruth.capA, gameTruth.totalCPM, gameTruth.totalPPPM,
                 gameTruth.svA, gameTruth.svCPM, gameTruth.svPPPM}

\* C16: every field of the truth is a finite number in every state the module
\* can be in, rwle = 0 and rle = 0 included.  The code divides by an annuity
\* factor of 0 when rwle = 0 and savings are needed.
C16_TruthFinite == \A n \in TruthNumbers : n.k = "fin"

\* years to retirement retyped to 0 on a generated problem
C16_Witness ==
  /\ mode = "game"
  /\ gameScenario.rwle = 0
  /\ gameTruth.capA.k = "fin"
  /\ gameTruth.capA.v > gameScenario.pvcur
  /\ gameTruth.svA = Infinity

NoBequest(scn) == scn.bequest = Undefined \/ scn.bequest = Some(0)

\* C13 as written: with need_today > 0 and no bequest, totalCPM and totalPPPM
\* both exceed capA.
C13_Original ==
  \A i \in DoneCalls("computeGameTruth") :
    (calls[i].result.need_today > 0 /\ NoBequest(calls[i].args[1])) =>
      /\ calls[i].result.totalCPM.v > calls[i].result.capA.v
      /\ calls[i].result.totalPPPM.v > calls[i].result.capA.v

\* C13: with need_today > 0, no bequest and at least one year in retirement,
\* totalCPM and totalPPPM both exceed capA.
C13_TotalsExceedCapital ==
  \A i \in DoneCalls("computeGameTruth") :
    (calls[i].result.need_today > 0 /\ NoBequest(calls[i].args[1])
       /\ calls[i].args[1].rle >= 1) =>
      /\ calls[i].result.capA.v > 0
      /\ calls[i].result.totalCPM.v > calls[i].result.capA.v
      /\ calls[i].result.totalPPPM.v > calls[i].result.capA.v

C13_Witness ==
  \E i \in DoneCalls("computeGameTruth") :
    /\ calls[i].result.need_today > 0
    /\ NoBequest(calls[i].args[1])
    /\ calls[i].args[1].rle = 25
    /\ calls[i].result.keepCPM > 0
    /\ calls[i].result.keepPPPM > calls[i].result.keepCPM

\* C14: of two scenarios that differ only in the bequest, the one with the
\* larger bequest has the larger capA.
C14_BequestRaisesCapital ==
  \A i, j \in DoneCalls("computeGameTruth") :
    LET a == calls[i].args[1]
        b == calls[j].args[1]
    IN (IsNumber(a.bequest) /\ IsNumber(b.bequest) /\ [a EXCEPT !.bequest = b.bequest] = b
          /\ 0 <= a.bequest[1] /\ a.bequest[1] < b.bequest[1]) =>
         calls[i].result.capA.v < calls[j].result.capA.v

C14_Witness ==
  /\ {1, 2} \subseteq DoneCalls("computeGameTruth")
  /\ calls[1].args[1].bequest = Some(50000)
  /\ calls[2].args[1].bequest = Some(100000)
  /\ calls[1].args[1].rle = 25
  /\ calls[1].result.capA.v > 0
  /\ calls[1].result.capA.v < calls[2].result.capA.v

\* C15: generators share no state: what an instance returns depends on its
\* own seed and on how often it was called, whatever other instances did in
\* between, and it is what a scenario generation with that seed draws.
C15_NoSharedGenerator ==
  \A i \in DoneCalls("mulberry32") :
    /\ \A n \in DOMAIN calls[i].result : calls[i].result[n] = rngValues(calls[i].args[1])[n]
    /\ \A j \in DoneCalls("mulberry32") :
         calls[i].args = calls[j].args =>
           \A n \in DOMAIN calls[i].result \cap DOMAIN calls[j].result :
             calls[i].result[n] = calls[j].result[n]

\* two instances of one seed and one of another, each called more than once
C15_Witness ==
  /\ Len(calls) = 2
  /\ calls[1].args = calls[2].args
  /\ Len(calls[1].result) = 2
  /\ Len(calls[2].result) = 2
  /\ calls[1].result[1] # calls[1].result[2]
  /\ calls[1].result = calls[2].result

\* the balance after n more years at rate r with a level deposit pmt at the
\* end (or, for "BEGIN", the beginning) of each year
RECURSIVE Balance(_, _, _, _, _)
Balance(bal, pmt, r, n, tm) ==
  IF n = 0 THEN bal
  ELSE CHOOSE final \in
         {Balance(next, pmt, r, n - 1, tm) :
            next \in {IF tm = "BEGIN" THEN MulDiv(bal + pmt, SCALE + r)
                      ELSE MulDiv(bal, SCALE + r) + pmt}} : TRUE

\* what rounding to whole dollars and basis points may cost: 1% and a dollar a year
Close(a, b, years) == 100 * Abs(a - b) <= Abs(b) + 100 * years

\* C17: when K > PVcur*(1+r)^N and N >= 1, depositing the returned amount
\* every year (at the end of the year for END, at its beginning for BEGIN)
\* grows PVcur to K in N years; for r = 0 that is PVcur + N * payment = K; the
\* BEGIN amount is the END amount divided by 1 + r.
C17_PaymentReachesTarget ==
  \A i \in DoneCalls("annualSavings") :
    LET a == calls[i].args
        pmt == calls[i].result
    IN (a[2] > MulDiv(a[1], PowFix(SCALE + a[3], a[4])) /\ a[4] >= 1) =>
         /\ pmt.k = "fin"
         /\ pmt.v > 0
         /\ Close(Balance(a[1], pmt.v, a[3], a[4], a[5]), a[2], a[4])
         /\ a[3] = 0 => Close(a[1] + a[4] * pmt.v, a[2], 0)
         /\ a[5] = "BEGIN" =>
              Close(MulDiv(pmt.v, SCALE + a[3]),
                    annualSavings(a[1], a[2], a[3], a[4], "END").v, 1)

\* 35 years of deposits at 8% towards a target the savings do not reach alone
C17_Witness ==
  \E i \in DoneCalls("annualSavings") :
    /\ calls[i].args = <<50000, 3000000, 800, 35, "END">>
    /\ calls[i].result.k = "fin"
    /\ calls[i].result.v > 0
    /\ 35 * calls[i].result.v < 3000000 - 50000

\* the value, when the first is paid, of n yearly payments pmt discounted at r
RECURSIVE DueValueFrom(_, _, _, _)
DueValueFrom(later, pmt, r, n) ==
  IF n = 0 THEN later
  ELSE CHOOSE total \in
         {DueValueFrom(value, pmt, r, n - 1) :
            value \in {pmt + DivFix(later, SCALE + r)}} : TRUE

DueValue(pmt, r, n) == DueValueFrom(0, pmt, r, n)

\* C18: capitalAnnuity returns pmt1 * N exactly for rReal = 0 and otherwise
\* the annuity-due value pmt1 * ((1 - (1 + rReal)^(-N)) / rReal) * (1 + rReal),
\* the sum of pmt1 / (1 + rReal)^k for k = 0 .. N-1.
C18_AnnuityDue ==
  \A i \in DoneCalls("capitalAnnuity") :
    LET a == calls[i].args
    IN IF a[2] = 0 THEN calls[i].result = a[1] * a[3]
       ELSE Close(calls[i].result, DueValue(a[1], a[2], a[3]), a[3])

C18_Witness ==
  /\ \E i \in DoneCalls("capitalAnnuity") :
       /\ calls[i].args = <<50000, 800, 20>>
       /\ calls[i].result > 10 * 50000
       /\ calls[i].result < 20 * 50000

\* the state of a reference generator that wraps to 32 bits after each of n increments
RECURSIVE WrappedState(_, _)
WrappedState(a, n) == IF n = 0 THEN a ELSE Add32(WrappedState(a, n - 1), INCR)

\* the mixing function on a 32-bit state
Mix32(w) ==
  LET r1 == Imul(Xor32(w, Shr32(w, 15)), Or32(Word(1), w))
      r2 == Xor32(r1, Add32(r1, Imul(Xor32(r1, Shr32(r1, 7)), Or32(Word(61), r1))))
  IN Xor32(r2, Shr32(r2, 14))

\* C21: the n-th output of mulberry32(seed) is k / 2^32 with 0 <= k < 2^32 the
\* mixing function of (seed + n * 0x6D2B79F5) mod 2^32, as for a generator that
\* wraps its state after each increment, although t itself is not truncated
\* (it stays far below 2^53, where a double stops being exact).
C21_WrappingCounter ==
  \A i \in DoneCalls("mulberry32") :
    /\ \A n \in DOMAIN calls[i].result :
         /\ calls[i].result[n] = Mix32(WrappedState(calls[i].args[1], n))
         /\ calls[i].result[n].h \in 0..(B16 - 1)
         /\ calls[i].result[n].l \in 0..(B16 - 1)
    /\ W(calls[i].t.h, calls[i].t.l) = WrappedState(calls[i].args[1], Len(calls[i].result))
    /\ calls[i].t.x \in 0..Len(calls[i].result)

\* an instance whose counter has left 32 bits
C21_Witness ==
  \E i \in DoneCalls("mulberry32") :
    /\ Len(calls[i].result) = 2
    /\ calls[i].t.x > 0
    /\ calls[i].args[1] = W(65535, 65535)


\* C22: in game mode every step that changes the seed, the problem index or
\* the difficulty leaves the scenario generated from the new seed, index and
\* difficulty, and between such steps only an edit of a field changes the
\* scenario; New Problem adds exactly 1 to problemIndex and keeps the seed;
\* Re-seed sets problemIndex to 0
Chosen == <<seed, problemIndex, difficulty>>
C22_ScenarioFollowsSeed ==
  [][mode = "game" =>
       /\ Chosen' # Chosen =>
            gameScenario' = generateScenarioFromSeed(splitSeed(seed', problemIndex'), difficulty')
       /\ (Chosen' = Chosen /\ gameScenario' # gameScenario) => edits' = edits + 1
       /\ NewProblem => (problemIndex' = problemIndex + 1 /\ seed' = seed)
       /\ Reseed => problemIndex' = 0]_vars

\* an edited scenario, at an index other than 0, whose problem seed Re-seed can
\* draw again for index 0
C22_EditedBeforeReseed ==
  /\ mounted /\ mode = "game" /\ edits > 0 /\ problemIndex # 0
  /\ gameScenario # generateScenarioFromSeed(seedForProblem, difficulty)
  /\ \E s \in RandomSeeds : s # seed /\ splitSeed(s, 0) = seedForProblem


\* C23: in game mode a step that changes problemIndex (New Problem, or Re-seed
\* from an index other than 0), and so draws the method again, ends with no
\* answers and no statuses, whatever the old and the new seed and index are
C23_IndexChangeClears ==
  [][(mode = "game" /\ problemIndex' # problemIndex) =>
       (answers' = NoEntries /\ statuses' = NoEntries)]_vars

\* a graded problem at an index other than 0 whose problem seed Re-seed can
\* draw again for index 0
C23_GradedBeforeReseed ==
  /\ mounted /\ mode = "game" /\ problemIndex # 0
  /\ answers # NoEntries
  /\ \E k \in DOMAIN statuses : statuses[k] \in {"correct", "incorrect"}
  /\ \E s \in RandomSeeds : s # seed /\ splitSeed(s, 0) = seedForProblem


\* C24: in every reachable state correct + incorrect = 2 * attempted,
\* 0 <= allCorrect <= attempted and 2 * allCorrect <= correct
C24_StatsConsistent ==
  /\ stats.correct + stats.incorrect = 2 * stats.attempted
  /\ 0 <= stats.allCorrect /\ stats.allCorrect <= stats.attempted
  /\ 2 * stats.allCorrect <= stats.correct

\* an attempt with both fields correct has been counted
C24_Witness ==
  /\ stats.attempted > 0 /\ stats.allCorrect = stats.attempted
  /\ stats.correct = 2 * stats.attempted

====
